---- MODULE Spec2Model ----
(***************************************************************************)
(* Model of the webapi tip handlers of hornet (plugins/webapi/tips.go):    *)
(* getTipInfo, which classifies an externally supplied tail, and           *)
(* getTransactionsToApprove, which serves a tip selection.                 *)
(*                                                                         *)
(* The tangle store, the solid-entry-points, the snapshot info, the sync   *)
(* state and the tip pool are the environment the handlers read.  Each     *)
(* handler is one action; its reply is recorded in resp.                   *)
(***************************************************************************)
EXTENDS Integers, Sequences, FiniteSets, TLC

\* ---------------------------------------------------------------- bounds
\* milestone indexes range over 0..MaxIndex
MaxIndex == 4
\* the snapshot's EntryPointIndex ranges over 0..MaxEntryPoint
MaxEntryPoint == 1

\* ------------------------------------------------------- program constants
\* milestone.Index is a uint32: differences wrap around.  The modulus is
\* 2^30 here, the largest power of two TLC's 32-bit integers can add to;
\* no index of the model comes near it.
IndexModulus == 1073741824
\* length of a transaction hash in trytes (guards.IsTransactionHash)
HashTrytesSize == 81

\* config.CfgTipSelBelowMaxDepth (scaled down from the default of 15)
BelowMaxDepth == 3
\* config.CfgTipSelMaxDeltaTxYoungestRootSnapshotIndexToLSMI (default 8)
MaxDeltaTxYoungestRootSnapshotIndexToLSMI == 1
\* config.CfgTipSelMaxDeltaTxApproveesOldestRootSnapshotIndexToLSMI (default 13)
MaxDeltaTxApproveesOldestRootSnapshotIndexToLSMI == 2

\* HTTP status codes used by the handlers
StatusOK == 200
StatusBadRequest == 400
StatusInternalServerError == 500
StatusServiceUnavailable == 503

\* -------------------------------------------------------------- hashes
\* TipHash is the transaction whose metadata varies freely; ApproveeHashes
\* are the transactions a bundle may name as trunk and branch.
TipHash == "T"
ApproveeHashes == {"A", "B"}
Hashes == {TipHash} \cup ApproveeHashes

\* A trytes string, as far as guards.IsTransactionHash and the hash
\* conversion see it: its length, whether every character is in [9A-Z],
\* and which hash its characters spell.
HashTrytes(h) == [len |-> HashTrytesSize, trytes |-> TRUE, id |-> h]
EmptyString == [len |-> 0, trytes |-> FALSE, id |-> "none"]
ShortString == [len |-> HashTrytesSize - 1, trytes |-> TRUE, id |-> "none"]
NonTryteString == [len |-> HashTrytesSize, trytes |-> FALSE, id |-> "none"]
MalformedStrings == {ShortString, NonTryteString}

\* guards.IsTransactionHash: trytes of exactly HashTrytesSize characters
IsTransactionHash(s) == s.trytes /\ s.len = HashTrytesSize

\* hornet.HashFromHashTrytes: the hash a valid trytes string spells
HashFromHashTrytes(s) == s.id

VARIABLES
    enabled,    \* the URTS plugin is not skipped
    synced,     \* tangle.IsNodeSyncedWithThreshold()
    lsmi,       \* tangle.GetSolidMilestoneIndex()
    store,      \* hash -> transaction metadata, or NoTx
    bundles,    \* tail hash -> bundle (trunk, branch), or NoBundle
    sep,        \* the solid entry points
    epi,        \* tangle.GetSnapshotInfo().EntryPointIndex
    nonLazy,    \* the tip pool's non-lazy tier
    semiLazy,   \* the tip pool's semi-lazy tier
    req,        \* the request last served
    resp,       \* the reply to it
    reported    \* the verdicts getTipInfo has given on TipHash so far

vars == <<enabled, synced, lsmi, store, bundles, sep, epi, nonLazy, semiLazy, req, resp,
          reported>>
world == <<enabled, store, bundles, sep, epi, nonLazy, semiLazy>>

NoTx == [known |-> FALSE]
NoBundle == [known |-> FALSE]
NoReq == [endpoint |-> "none"]

\* the cached objects a handler takes handles on: the metadata and the
\* bundle of a hash
HandleObjects == {<<kind, h>> : kind \in {"metadata", "bundle"}, h \in Hashes}
\* how many handles a handler has acquired and released, per object
NoRefs == [acquired |-> [o \in HandleObjects |-> 0], released |-> [o \in HandleObjects |-> 0]]
\* GetCached...OrNil returning an object, or Retain(): one more handle on it
Acquire(refs, object) == [refs EXCEPT !.acquired[object] = @ + 1]
\* Release(true): one handle on the object given back
Release(refs, object) == [refs EXCEPT !.released[object] = @ + 1]

NoResp == [endpoint |-> "none", status |-> 0, error |-> "", detail |-> "none",
           confirmed |-> FALSE, conflicting |-> FALSE,
           shouldPromote |-> FALSE, shouldReattach |-> FALSE,
           trunk |-> EmptyString, branch |-> EmptyString, log |-> {},
           refs |-> NoRefs]

\* milestone.Index subtraction (uint32)
Sub(a, b) == (a - b + IndexModulus) % IndexModulus

TxMeta(tail, solid, confirmed, conflicting, y, o) ==
    [known |-> TRUE, tail |-> tail, solid |-> solid, confirmed |-> confirmed,
     conflicting |-> conflicting, ytrsi |-> y, otrsi |-> o]

\* ------------------------------------------------------------- replies
ErrorReply(endpoint, status, error, detail, log) ==
    [NoResp EXCEPT !.endpoint = endpoint, !.status = status, !.error = error,
                   !.detail = detail, !.log = log]

\* c.JSON(http.StatusOK, GetTipInfoReturn{...})
GetTipInfoReturn(confirmed, conflicting, shouldPromote, shouldReattach, log) ==
    [NoResp EXCEPT !.endpoint = "getTipInfo", !.status = StatusOK,
                   !.confirmed = confirmed, !.conflicting = conflicting,
                   !.shouldPromote = shouldPromote, !.shouldReattach = shouldReattach,
                   !.log = log]

\* c.JSON(http.StatusOK, GetTransactionsToApproveReturn{...})
GetTransactionsToApproveReturn(trunk, branch, log) ==
    [NoResp EXCEPT !.endpoint = "getTransactionsToApprove", !.status = StatusOK,
                   !.trunk = trunk, !.branch = branch, !.log = log]

\* ----------------------------------------------------------- getTipInfo
\* dag.GetTransactionRootSnapshotIndexes(meta, lsmi): the (YTRSI, OTRSI) of a
\* transaction, read from the indexes its metadata carries.
GetTransactionRootSnapshotIndexes(h) == [ytrsi |-> store[h].ytrsi, ortsi |-> store[h].otrsi]

\* dag.GetTransactionRootSnapshotIndexes releases the handle it is passed
ReleasedByIndexLookup(refs, h) == Release(refs, <<"metadata", h>>)

\* cachedTxMeta.Retain() passed to the index lookup (tips.go:92, 144)
RetainForIndexLookup(refs, h) == ReleasedByIndexLookup(Acquire(refs, <<"metadata", h>>), h)

\* a reply sent with the handles in refs acquired and released so far
Sent(reply, refs) == [reply EXCEPT !.refs = refs]

\* defer object.Release(true): the handle is given back as the handler returns
Deferred(reply, object) == [reply EXCEPT !.refs = Release(@, object)]

\* ReleaseApprovee left out
ReleaseApproveeForgotten(refs, h) == refs

\* cachedApproveeTxMeta.Release(true) (tips.go:145)
ReleaseApprovee(refs, h) == Release(refs, <<"metadata", h>>)

\* status sent when the node is not synced (tips.go:38)
NotSyncedStatus == StatusBadRequest

\* ConfirmedFlag without the conflicting mask
ConfirmedFlagUnmasked(meta) == meta.confirmed

\* confirmed := IsConfirmed() && !conflicting (tips.go:79)
ConfirmedFlag(meta) == meta.confirmed /\ ~meta.conflicting

\* ExceedsBelowMaxDepth with >= for >
ExceedsBelowMaxDepthInclusive(ortsi) == Sub(lsmi, ortsi) >= BelowMaxDepth

\* (lsmi - ortsi) > BelowMaxDepth (tips.go:95)
ExceedsBelowMaxDepth(ortsi) == Sub(lsmi, ortsi) > BelowMaxDepth

\* (lsmi - ytrsi) > MaxDeltaTxYoungestRootSnapshotIndexToLSMI (tips.go:106)
ExceedsYoungestDelta(ytrsi) == Sub(lsmi, ytrsi) > MaxDeltaTxYoungestRootSnapshotIndexToLSMI

\* ExceedsApproveeDelta with < for >
ExceedsApproveeDeltaReversed(approveeORTSI) ==
    Sub(lsmi, approveeORTSI) < MaxDeltaTxApproveesOldestRootSnapshotIndexToLSMI

\* ExceedsApproveeDelta with >= for >
ExceedsApproveeDeltaInclusive(approveeORTSI) ==
    Sub(lsmi, approveeORTSI) >= MaxDeltaTxApproveesOldestRootSnapshotIndexToLSMI

\* lsmi - approveeORTSI > MaxDeltaTxApproveesOldestRootSnapshotIndexToLSMI (tips.go:149)
ExceedsApproveeDelta(approveeORTSI) ==
    Sub(lsmi, approveeORTSI) > MaxDeltaTxApproveesOldestRootSnapshotIndexToLSMI

\* the keys of the approveeHashes map (trunk and branch, once when equal)
ApproveeHashSet(bundle) == {bundle.trunk, bundle.branch}

\* the orders in which a range over the approveeHashes map may yield its keys
ApproveeOrders(bundle) ==
    LET S == ApproveeHashSet(bundle)
    IN  {o \in [1..Cardinality(S) -> S] : \A x \in S : \E i \in 1..Cardinality(S) : o[i] = x}

\* IsSolidEntryPoint answering no for every hash
IsSolidEntryPointNever(h) == FALSE

\* tangle.SolidEntryPointsContain(approveeHash) (tips.go:133)
IsSolidEntryPoint(h) == h \in sep

\* the for loop over approveeHashes (tips.go:130-158) and the final reply
RECURSIVE ScanApprovees(_, _, _)
ScanApprovees(order, log, refs) ==
    IF order = <<>>
    THEN Sent(GetTipInfoReturn(FALSE, FALSE, FALSE, FALSE, log), refs)
    ELSE LET approveeHash == Head(order)
             logSEP == log \cup {<<"solidEntryPointsContain", approveeHash>>}
             logInfo == logSEP \cup {<<"snapshotInfo", approveeHash>>}
             logMeta == logSEP \cup {<<"metadata", approveeHash>>}
             logIdx == logMeta \cup {<<"rootSnapshotIndexes", approveeHash>>}
             refsMeta == Acquire(refs, <<"metadata", approveeHash>>)
             refsDone == ReleaseApprovee(RetainForIndexLookup(refsMeta, approveeHash),
                                         approveeHash)
         IN  IF IsSolidEntryPoint(approveeHash)
             THEN IF ExceedsApproveeDelta(epi)
                  THEN Sent(GetTipInfoReturn(FALSE, FALSE, TRUE, FALSE, logInfo), refs)
                  ELSE ScanApprovees(Tail(order), logInfo, refs)
             ELSE IF ~store[approveeHash].known
             THEN Sent(ErrorReply("getTipInfo", StatusBadRequest,
                                  "approvee transaction not found", approveeHash, logMeta),
                       refs)
             ELSE IF ExceedsApproveeDelta(GetTransactionRootSnapshotIndexes(approveeHash).ortsi)
                  THEN Sent(GetTipInfoReturn(FALSE, FALSE, TRUE, FALSE, logIdx), refsDone)
                  ELSE ScanApprovees(Tail(order), logIdx, refsDone)

\* tips.go:91-166: the classification of a solid, unconfirmed, non-conflicting tail
ClassifyTip(h, order, log, refs) ==
    LET idx == GetTransactionRootSnapshotIndexes(h)
        logIdx == log \cup {<<"rootSnapshotIndexes", h>>}
        logBundle == logIdx \cup {<<"bundle", h>>}
        refsIdx == RetainForIndexLookup(refs, h)
        refsBundle == Acquire(refsIdx, <<"bundle", h>>)
    IN  IF ExceedsBelowMaxDepth(idx.ortsi)
        THEN Sent(GetTipInfoReturn(FALSE, FALSE, FALSE, TRUE, logIdx), refsIdx)
        ELSE IF ExceedsYoungestDelta(idx.ytrsi)
        THEN Sent(GetTipInfoReturn(FALSE, FALSE, TRUE, FALSE, logIdx), refsIdx)
        ELSE IF ~bundles[h].known
        THEN Sent(ErrorReply("getTipInfo", StatusBadRequest, "unknown bundle", "none",
                             logBundle), refsIdx)
        ELSE Deferred(ScanApprovees(order, logBundle, refsBundle), <<"bundle", h>>)

\* TailFault with the solidity check made before the tail check
TailFaultSolidFirst(meta) ==
    IF ~meta.known THEN "unknown tail transaction"
    ELSE IF ~meta.solid THEN "transaction is not solid"
    ELSE IF ~meta.tail THEN "transaction is not a tail"
    ELSE "none"

\* tips.go:57-74: what is wrong with the tail's metadata, the first that applies
TailFault(meta) ==
    IF ~meta.known THEN "unknown tail transaction"
    ELSE IF ~meta.tail THEN "transaction is not a tail"
    ELSE IF ~meta.solid THEN "transaction is not solid"
    ELSE "none"

\* AnsweredFromFlags without the confirmed disjunct
AnsweredFromFlagsConflictingOnly(meta) == meta.conflicting

\* if confirmed || conflicting (tips.go:81)
AnsweredFromFlags(meta) == ConfirmedFlag(meta) \/ meta.conflicting

\* tips.go:56-89: the lookups and flag checks on the tail's metadata
CheckTail(h, order) ==
    LET meta == store[h]
        log == {<<"metadata", h>>}
        refs == Acquire(NoRefs, <<"metadata", h>>)
    IN  IF ~meta.known
        THEN ErrorReply("getTipInfo", StatusBadRequest, TailFault(meta), "none", log)
        ELSE Deferred(
                 IF TailFault(meta) # "none"
                 THEN Sent(ErrorReply("getTipInfo", StatusBadRequest, TailFault(meta),
                                      "none", log), refs)
                 ELSE IF AnsweredFromFlags(meta)
                 THEN Sent(GetTipInfoReturn(ConfirmedFlag(meta), meta.conflicting,
                                            FALSE, FALSE, log), refs)
                 ELSE ClassifyTip(h, order, log, refs),
                 <<"metadata", h>>)

\* tips.go:26-167
getTipInfo(query, order) ==
    IF ~enabled
    THEN ErrorReply("getTipInfo", StatusServiceUnavailable,
                    "tipselection plugin disabled in this node", "none", {})
    ELSE IF ~synced
    THEN ErrorReply("getTipInfo", NotSyncedStatus, "node is not synced", "none", {})
    ELSE IF ~query.decodes
    THEN ErrorReply("getTipInfo", StatusInternalServerError, "internal server error", "none", {})
    ELSE IF ~IsTransactionHash(query.tailTransaction)
    THEN ErrorReply("getTipInfo", StatusBadRequest, "invalid tail hash supplied", "none", {})
    ELSE CheckTail(HashFromHashTrytes(query.tailTransaction), order)

\* the iteration orders the approvee scan of a request may take
IterationOrders(query) ==
    LET h == HashFromHashTrytes(query.tailTransaction)
    IN  IF IsTransactionHash(query.tailTransaction) /\ bundles[h].known
        THEN ApproveeOrders(bundles[h])
        ELSE {<<>>}

\* the requests a client may send to getTipInfo
GetTipInfoQueries ==
    [endpoint : {"getTipInfo"}, decodes : {TRUE},
     tailTransaction : {HashTrytes(TipHash), HashTrytes("A")} \cup MalformedStrings]
    \cup [endpoint : {"getTipInfo"}, decodes : {FALSE}, tailTransaction : {HashTrytes(TipHash)}]

\* the verdict a reply carries: none unless it is a 200 classification
Verdict(reply) ==
    IF reply.endpoint # "getTipInfo" \/ reply.status # StatusOK
       \/ reply.confirmed \/ reply.conflicting
    THEN "none"
    ELSE IF reply.shouldReattach THEN "reattach"
    ELSE IF reply.shouldPromote THEN "promote"
    ELSE "nonLazy"

\* the order of staleness: all-false < shouldPromote < shouldReattach
VerdictRank(verdict) ==
    CASE verdict = "none" -> 0
      [] verdict = "nonLazy" -> 1
      [] verdict = "promote" -> 2
      [] verdict = "reattach" -> 3

\* the verdicts given so far, with the one a reply carries
Recorded(verdicts, reply) ==
    IF Verdict(reply) = "none" THEN verdicts ELSE verdicts \cup {Verdict(reply)}

GetTipInfo ==
    /\ \E query \in GetTipInfoQueries : \E order \in IterationOrders(query) :
          /\ req' = query
          /\ resp' = getTipInfo(query, order)
          /\ reported' = IF query.tailTransaction = HashTrytes(TipHash)
                          THEN Recorded(reported, getTipInfo(query, order))
                          ELSE reported
    /\ UNCHANGED <<synced, lsmi, world>>

\* ------------------------------------------------------------ environment
\* a new solid milestone: the solid milestone index advances
AdvanceMilestone ==
    /\ lsmi < MaxIndex
    /\ lsmi' = lsmi + 1
    /\ req' = NoReq
    /\ resp' = NoResp
    /\ UNCHANGED <<synced, world, reported>>

\* the node falls out of sync, or catches up
SetSynced ==
    /\ synced' = ~synced
    /\ req' = NoReq
    /\ resp' = NoResp
    /\ UNCHANGED <<lsmi, world, reported>>

Min(a, b) == IF a < b THEN a ELSE b

\* metadata the queried transaction may have at solid milestone index l:
\* OTRSI <= YTRSI <= LSMI for a solid transaction; a confirmed or conflicting
\* one carries the index it was confirmed at.
TipMetas(l) ==
    {NoTx}
    \cup {TxMeta(tail, FALSE, FALSE, FALSE, 0, 0) : tail \in BOOLEAN}
    \cup {TxMeta(FALSE, TRUE, confirmed, FALSE, l, l) : confirmed \in BOOLEAN}
    \cup {TxMeta(TRUE, TRUE, FALSE, FALSE, p[1], p[2]) :
            p \in {q \in (0..l) \X (0..l) : q[2] <= q[1]}}
    \cup {TxMeta(TRUE, TRUE, c[1], c[2], at, at) :
            c \in {<<TRUE, FALSE>>, <<FALSE, TRUE>>, <<TRUE, TRUE>>}, at \in {0, l}}

\* metadata a trunk or branch transaction may have: absent, or solid with
\* an OTRSI of at most the solid milestone index
ApproveeMetas(l) ==
    {NoTx} \cup {TxMeta(TRUE, TRUE, FALSE, FALSE, o, o) : o \in 0..l}

\* the second approvee is absent, as old as can be, or as young as can be
OtherApproveeMetas(l) ==
    {NoTx} \cup {TxMeta(TRUE, TRUE, FALSE, FALSE, o, o) : o \in {0, l}}

\* the bundle of the tail: none, or one whose trunk and branch differ or agree
Bundles ==
    {NoBundle} \cup {[known |-> TRUE, trunk |-> "A", branch |-> b] : b \in ApproveeHashes}

InitStore ==
    /\ lsmi \in 0..MaxIndex
    /\ \E tm \in TipMetas(lsmi), am \in ApproveeMetas(lsmi), bm \in OtherApproveeMetas(lsmi) :
          store = [h \in Hashes |-> IF h = TipHash THEN tm ELSE IF h = "A" THEN am ELSE bm]
    \* solid entry points lie below the snapshot: the store holds no metadata
    \* for them; without a snapshot there is none and the entry point index is 0
    /\ sep \in {s \in SUBSET ApproveeHashes : \A h \in s : ~store[h].known}
    /\ epi \in IF sep = {} THEN {0} ELSE 0..Min(MaxEntryPoint, lsmi)
    /\ \E b \in Bundles :
          bundles = [h \in Hashes |-> IF h = TipHash THEN b ELSE NoBundle]

Init ==
    /\ enabled \in BOOLEAN
    /\ synced \in BOOLEAN
    /\ InitStore
    /\ nonLazy = {}
    /\ semiLazy = {}
    /\ req = NoReq
    /\ resp = NoResp
    /\ reported = {}

Next == GetTipInfo \/ AdvanceMilestone \/ SetSynced

Spec == Init /\ [][Next]_vars

\* ------------------------------------------------- getTransactionsToApprove
\* hornet.Hash.Trytes(): the trytes string that spells a hash
Trytes(h) == HashTrytes(h)

\* RetryableErrors without ErrNoTipsAvailable
RetryableErrorsSyncOnly == {"ErrNodeNotSynced"}

\* the selector's errors the handler tells apart (tips.go:189)
RetryableErrors == {"ErrNodeNotSynced", "ErrNoTipsAvailable"}

\* SelectNonLazyTips without the semi-lazy fallback
SelectNonLazyTipsNoFallback(fault) ==
    IF fault
    THEN {[err |-> "ErrOther", tips |-> <<>>]}
    ELSE IF ~synced
    THEN {[err |-> "ErrNodeNotSynced", tips |-> <<>>]}
    ELSE IF nonLazy = {}
    THEN {[err |-> "ErrNoTipsAvailable", tips |-> <<>>]}
    ELSE {[err |-> "none", tips |-> p] :
             p \in {q \in nonLazy \X nonLazy : q[1] # q[2] \/ Cardinality(nonLazy) = 1}}

\* urts.TipSelector.SelectNonLazyTips(): the selections it may return.  The
\* node must be synced; both picks are drawn from the non-lazy tier, or from
\* the semi-lazy tier when the non-lazy tier is empty; the two picks are the
\* same tip only when the tier holds a single tip.  A fault is any failure
\* other than the two retryable ones.
SelectNonLazyTips(fault) ==
    LET tier == IF nonLazy # {} THEN nonLazy ELSE semiLazy
    IN  IF fault
        THEN {[err |-> "ErrOther", tips |-> <<>>]}
        ELSE IF ~synced
        THEN {[err |-> "ErrNodeNotSynced", tips |-> <<>>]}
        ELSE IF tier = {}
        THEN {[err |-> "ErrNoTipsAvailable", tips |-> <<>>]}
        ELSE {[err |-> "none", tips |-> p] :
                 p \in {q \in tier \X tier : q[1] # q[2] \/ Cardinality(tier) = 1}}

\* tips.go:188-197: the reply to a failed selection
SelectionFailed(err) ==
    IF err \in RetryableErrors
    THEN ErrorReply("getTransactionsToApprove", StatusServiceUnavailable, err, "none", {})
    ELSE ErrorReply("getTransactionsToApprove", StatusInternalServerError,
                    "internal server error", err, {})

\* SelectionServed answering with both selected tips whatever the reference
SelectionServedIgnoringReference(reference, tips) ==
    IF reference.len > 0 /\ ~IsTransactionHash(reference)
    THEN ErrorReply("getTransactionsToApprove", StatusBadRequest,
                    "invalid reference hash supplied", "none", {})
    ELSE GetTransactionsToApproveReturn(Trytes(tips[1]), Trytes(tips[2]), {})

\* SelectionServed without the check of the reference
SelectionServedUnchecked(reference, tips) ==
    IF reference.len > 0
    THEN GetTransactionsToApproveReturn(Trytes(tips[1]), reference, {})
    ELSE GetTransactionsToApproveReturn(Trytes(tips[1]), Trytes(tips[2]), {})

\* tips.go:199-209: the reply to a successful selection
SelectionServed(reference, tips) ==
    IF reference.len > 0
    THEN IF ~IsTransactionHash(reference)
         THEN ErrorReply("getTransactionsToApprove", StatusBadRequest,
                         "invalid reference hash supplied", "none", {})
         ELSE GetTransactionsToApproveReturn(Trytes(tips[1]), reference, {})
    ELSE GetTransactionsToApproveReturn(Trytes(tips[1]), Trytes(tips[2]), {})

\* tips.go:169-210
getTransactionsToApprove(query, selection) ==
    IF ~enabled
    THEN ErrorReply("getTransactionsToApprove", StatusServiceUnavailable,
                    "tipselection plugin disabled in this node", "none", {})
    ELSE IF ~query.decodes
    THEN ErrorReply("getTransactionsToApprove", StatusInternalServerError,
                    "internal server error", "none", {})
    ELSE IF selection.err # "none"
    THEN SelectionFailed(selection.err)
    ELSE SelectionServed(query.reference, selection.tips)

\* a hash no transaction of the store or tip of the pool has
UnknownHash == "U"

\* the requests a client may send to getTransactionsToApprove
GetTransactionsToApproveQueries ==
    [endpoint : {"getTransactionsToApprove"}, decodes : {TRUE}, fault : BOOLEAN,
     reference : {EmptyString, HashTrytes(TipHash), HashTrytes(UnknownHash)} \cup MalformedStrings]
    \cup [endpoint : {"getTransactionsToApprove"}, decodes : {FALSE}, fault : {FALSE},
          reference : {EmptyString}]

GetTransactionsToApprove ==
    /\ \E query \in GetTransactionsToApproveQueries :
       \E selection \in SelectNonLazyTips(query.fault) :
          /\ req' = [endpoint |-> query.endpoint, decodes |-> query.decodes,
                      reference |-> query.reference, selection |-> selection]
          /\ resp' = getTransactionsToApprove(query, selection)
    /\ UNCHANGED <<synced, lsmi, world, reported>>

\* the tip pool: two disjoint tiers of tips
InitPool ==
    /\ nonLazy \in SUBSET Hashes
    /\ semiLazy \in SUBSET (Hashes \ nonLazy)

InitSelect ==
    /\ enabled \in BOOLEAN
    /\ synced \in BOOLEAN
    /\ lsmi = 0
    /\ epi = 0
    /\ sep = {}
    /\ store = [h \in Hashes |-> NoTx]
    /\ bundles = [h \in Hashes |-> NoBundle]
    /\ InitPool
    /\ req = NoReq
    /\ resp = NoResp
    /\ reported = {}

\* ------------------------------------------------------- REST API v1
\* http.StatusNotFound: what the router answers on a path with no route
StatusNotFound == 404

RouteInfo == "/info"
RouteTips == "/tips"
\* a path the plugin registers no route for
UnroutedPath == "/unrouted"

\* configure(): the routes registered on the /api/v1 group; the tips route
\* only if the URTS plugin is not skipped (plugin.go:204-213)
RegisteredRoutes == {RouteInfo} \cup (IF enabled THEN {RouteTips} ELSE {})

\* tips(c): the reply of the tips route to a selection
tips(selection) ==
    IF selection.err = "ErrNodeNotSynced"
    THEN ErrorReply("restapi", StatusServiceUnavailable, "node not synced", "none", {})
    ELSE IF selection.err = "ErrNoTipsAvailable"
    THEN ErrorReply("restapi", StatusServiceUnavailable, "no tips available", "none", {})
    ELSE [NoResp EXCEPT !.endpoint = "restapi", !.status = StatusOK,
                        !.trunk = Trytes(selection.tips[1]),
                        !.branch = Trytes(selection.tips[2])]

\* the router of the /api/v1 group: the route's handler, or 404 Not Found
ServeRoute(path, selection) ==
    IF path \notin RegisteredRoutes
    THEN ErrorReply("restapi", StatusNotFound, "Not Found", "none", {})
    ELSE IF path = RouteTips
    THEN tips(selection)
    ELSE [NoResp EXCEPT !.endpoint = "restapi", !.status = StatusOK]

\* a GET request to the REST API
RestGet ==
    /\ \E path \in {RouteInfo, RouteTips, UnroutedPath} :
       \E selection \in SelectNonLazyTips(FALSE) :
          /\ req' = [endpoint |-> "restapi", path |-> path, selection |-> selection]
          /\ resp' = ServeRoute(path, selection)
    /\ UNCHANGED <<synced, lsmi, world, reported>>

NextSelect == GetTransactionsToApprove \/ RestGet \/ SetSynced

SpecSelect == InitSelect /\ [][NextSelect]_vars

\* ================================================================ claims
\* the hash and the metadata the served getTipInfo request names
QueriedHash == HashFromHashTrytes(req.tailTransaction)
QueriedMeta == store[QueriedHash]

\* a getTipInfo request that got as far as looking at the tail's metadata
TailLookedUp ==
    /\ resp.endpoint = "getTipInfo"
    /\ enabled /\ synced /\ req.decodes
    /\ IsTransactionHash(req.tailTransaction)

\* a getTipInfo request on a known solid tail
KnownSolidTail ==
    /\ TailLookedUp
    /\ QueriedMeta.known /\ QueriedMeta.tail /\ QueriedMeta.solid

\* a getTipInfo request that reaches classification
ReachesClassification ==
    /\ KnownSolidTail
    /\ ~QueriedMeta.confirmed /\ ~QueriedMeta.conflicting

AllFlagsFalse ==
    ~resp.confirmed /\ ~resp.conflicting /\ ~resp.shouldPromote /\ ~resp.shouldReattach

\* LSMI - OTRSI(tip) > BMD, in the integers
BreachesBMD == lsmi - QueriedMeta.otrsi > BelowMaxDepth
\* LSMI - YTRSI(tip) > MaxYTRSIDelta
BreachesYTRSI == lsmi - QueriedMeta.ytrsi > MaxDeltaTxYoungestRootSnapshotIndexToLSMI
\* the direct parents of the tip that have an OTRSI: solid entry points
\* (the entry point index) and transactions of the store
ParentsWithOTRSI ==
    IF bundles[QueriedHash].known
    THEN {p \in ApproveeHashSet(bundles[QueriedHash]) : p \in sep \/ store[p].known}
    ELSE {}
ParentOTRSI(p) == IF p \in sep THEN epi ELSE store[p].otrsi
\* some direct parent has LSMI - OTRSI(p) > MaxApproveeOTRSIDelta
SomeParentBreaches ==
    \E p \in ParentsWithOTRSI :
        lsmi - ParentOTRSI(p) > MaxDeltaTxApproveesOldestRootSnapshotIndexToLSMI

\* C1: a request that reaches classification gets shouldReattach=true iff
\* LSMI - OTRSI(tip) > BMD (strictly), and a tip that breaches BMD is answered
\* 200 with shouldReattach=true and shouldPromote=false whatever its YTRSI and
\* its parents are.
C1_ReattachIffBelowMaxDepth ==
    ReachesClassification =>
        /\ resp.shouldReattach <=> BreachesBMD
        /\ BreachesBMD =>
              /\ resp.status = StatusOK
              /\ resp.shouldReattach /\ ~resp.shouldPromote
              /\ ~resp.confirmed /\ ~resp.conflicting

\* C1 witness: a tip that breaches BMD and whose YTRSI delta is exceeded too
\* is told to reattach
C1_Witness ==
    /\ ReachesClassification
    /\ BreachesBMD /\ BreachesYTRSI
    /\ resp.shouldReattach

\* C2: a request that reaches classification and answers 200 has
\* shouldPromote=true iff the tip does not breach BMD and its YTRSI delta or
\* some parent's OTRSI delta is exceeded; when no threshold is exceeded all
\* four flags are false.
C2_PromoteIffSemiLazy ==
    (ReachesClassification /\ resp.status = StatusOK) =>
        /\ resp.shouldPromote <=> (~BreachesBMD /\ (BreachesYTRSI \/ SomeParentBreaches))
        /\ (~BreachesBMD /\ ~BreachesYTRSI /\ ~SomeParentBreaches) => AllFlagsFalse

\* C2 witness: a tip within BMD and within the YTRSI delta is told to promote
\* because of a parent
C2_Witness ==
    /\ ReachesClassification /\ resp.status = StatusOK
    /\ ~BreachesBMD /\ ~BreachesYTRSI /\ SomeParentBreaches
    /\ \A p \in ParentsWithOTRSI : ParentOTRSI(p) >= QueriedMeta.otrsi
    /\ resp.shouldPromote

\* C3: a known solid tail that is conflicting is answered 200 with
\* conflicting=true and the other flags false, also when its metadata says
\* confirmed, and nothing but the tail's metadata is read.
C3_ConflictingMasksConfirmed ==
    (KnownSolidTail /\ QueriedMeta.conflicting) =>
        /\ resp.status = StatusOK
        /\ resp.conflicting /\ ~resp.confirmed
        /\ ~resp.shouldPromote /\ ~resp.shouldReattach
        /\ resp.log = {<<"metadata", QueriedHash>>}

\* C3 witness: a tail that is both confirmed and conflicting was answered
C3_Witness ==
    /\ KnownSolidTail
    /\ QueriedMeta.conflicting /\ QueriedMeta.confirmed
    /\ resp.status = StatusOK /\ resp.conflicting

\* C4: a known solid tail that is confirmed and not conflicting is answered
\* 200 with confirmed=true and the other flags false, whatever LSMI and the
\* indexes are.
C4_ConfirmedTakesPrecedence ==
    (KnownSolidTail /\ QueriedMeta.confirmed /\ ~QueriedMeta.conflicting) =>
        /\ resp.status = StatusOK
        /\ resp.confirmed /\ ~resp.conflicting
        /\ ~resp.shouldPromote /\ ~resp.shouldReattach

\* C4 witness: a confirmed tail far below max depth was answered confirmed
C4_Witness ==
    /\ KnownSolidTail
    /\ QueriedMeta.confirmed /\ ~QueriedMeta.conflicting
    /\ BreachesBMD
    /\ resp.status = StatusOK /\ resp.confirmed

\* the diagnostic the first failing check on the tail gives
ExpectedTailDiagnostic ==
    IF ~IsTransactionHash(req.tailTransaction) THEN "invalid tail hash supplied"
    ELSE IF ~QueriedMeta.known THEN "unknown tail transaction"
    ELSE IF ~QueriedMeta.tail THEN "transaction is not a tail"
    ELSE IF ~QueriedMeta.solid THEN "transaction is not solid"
    ELSE "none"

\* C5: with the plugin enabled and the node synced, a request whose tail hash
\* is malformed, unknown, not a tail or not solid is answered 400 with the
\* diagnostic of the first of these checks that fails, whatever the
\* confirmed and conflicting flags are.
C5_TailFaultsAre400 ==
    (/\ resp.endpoint = "getTipInfo"
     /\ enabled /\ synced /\ req.decodes
     /\ ExpectedTailDiagnostic # "none") =>
        /\ resp.status = StatusBadRequest
        /\ resp.error = ExpectedTailDiagnostic
        /\ AllFlagsFalse

\* C5 witness: a transaction that is neither a tail nor solid is refused as
\* not a tail
C5_Witness ==
    /\ TailLookedUp
    /\ QueriedMeta.known /\ ~QueriedMeta.tail /\ ~QueriedMeta.solid
    /\ resp.status = StatusBadRequest
    /\ resp.error = "transaction is not a tail"

\* C6: a request that fails because the node is not synced is answered 503,
\* on getTipInfo and on getTransactionsToApprove.
C6_NotSyncedIs503 ==
    (/\ resp.endpoint \in {"getTipInfo", "getTransactionsToApprove"}
     /\ resp.error \in {"node is not synced", "ErrNodeNotSynced"}) =>
        resp.status = StatusServiceUnavailable

\* a getTransactionsToApprove request that got as far as the selection
SelectionAttempted ==
    /\ resp.endpoint = "getTransactionsToApprove"
    /\ enabled /\ req.decodes

\* C7: when the selector reports ErrNoTipsAvailable the reply is 503, carries
\* that error and no tip hashes; of the selector's errors only
\* ErrNodeNotSynced and ErrNoTipsAvailable give 503, any other gives 500; a
\* 200 is sent only when the selection returned no error.
C7_SelectorErrorStatus ==
    SelectionAttempted =>
        /\ req.selection.err = "ErrNoTipsAvailable" =>
              /\ resp.status = StatusServiceUnavailable
              /\ resp.error = "ErrNoTipsAvailable"
              /\ resp.trunk = EmptyString /\ resp.branch = EmptyString
        /\ resp.status = StatusServiceUnavailable <=> req.selection.err \in RetryableErrors
        /\ req.selection.err \notin (RetryableErrors \cup {"none"}) =>
              resp.status = StatusInternalServerError
        /\ resp.status = StatusOK => req.selection.err = "none"

\* C7 witness: a synced node with an empty pool answered 503
C7_Witness ==
    /\ SelectionAttempted
    /\ synced /\ nonLazy = {} /\ semiLazy = {}
    /\ req.selection.err = "ErrNoTipsAvailable"
    /\ resp.status = StatusServiceUnavailable

\* a getTransactionsToApprove request whose selection succeeded
SelectionSucceeded ==
    /\ SelectionAttempted
    /\ req.selection.err = "none"

\* C8: with a non-empty valid reference R and a successful selection the
\* reply is (first selected tip, R), R unchanged and never looked up; with an
\* empty reference it is (first selected tip, second selected tip).
C8_ReferenceOverride ==
    SelectionSucceeded =>
        /\ (req.reference.len > 0 /\ IsTransactionHash(req.reference)) =>
              /\ resp.status = StatusOK
              /\ resp.trunk = Trytes(req.selection.tips[1])
              /\ resp.branch = req.reference
              /\ resp.log = {}
        /\ req.reference.len = 0 =>
              /\ resp.status = StatusOK
              /\ resp.trunk = Trytes(req.selection.tips[1])
              /\ resp.branch = Trytes(req.selection.tips[2])

\* C8 witness: a reference unknown to the store and the pool came back as
\* branch in place of the second selected tip
C8_Witness ==
    /\ SelectionSucceeded
    /\ req.reference = HashTrytes(UnknownHash)
    /\ ~store[TipHash].known
    /\ resp.status = StatusOK
    /\ resp.branch = req.reference
    /\ resp.branch # Trytes(req.selection.tips[2])

\* a non-empty malformed reference
MalformedReference == req.reference.len > 0 /\ ~IsTransactionHash(req.reference)

\* C9 as stated: every request with a non-empty malformed reference is
\* answered 400, in every state of the pool and of node sync.
C9_MalformedReferenceAlways400 ==
    (SelectionAttempted /\ MalformedReference) => resp.status = StatusBadRequest

\* C9 amended: a request with a non-empty malformed reference is answered 400
\* (invalid reference hash) when the selection succeeded; when the selection
\* failed the reply is the selection's 503 or 500, as the reference is only
\* checked after the selection.
C9_MalformedReference400AfterSelection ==
    (SelectionAttempted /\ MalformedReference) =>
        /\ req.selection.err = "none" =>
              /\ resp.status = StatusBadRequest
              /\ resp.error = "invalid reference hash supplied"
        /\ req.selection.err # "none" =>
              resp.status \in {StatusServiceUnavailable, StatusInternalServerError}

\* C9 witness: a malformed reference was refused after a successful selection
C9_Witness ==
    /\ SelectionSucceeded /\ MalformedReference
    /\ resp.status = StatusBadRequest

C11_DisabledTipsRouteIs503 ==
    (resp.endpoint = "restapi" /\ req.path = RouteTips /\ ~enabled) =>
        /\ resp.status = StatusServiceUnavailable
        /\ resp.error = "tipselection plugin disabled"

\* a request that reaches the scan of the tip's parents
ReachesParentScan ==
    /\ ReachesClassification
    /\ ~BreachesBMD /\ ~BreachesYTRSI
    /\ bundles[QueriedHash].known

\* the direct parents that are neither in the store nor solid entry points
MissingParents ==
    {p \in ApproveeHashSet(bundles[QueriedHash]) : p \notin sep /\ ~store[p].known}

\* C12: when a direct parent of the tip is missing from the store and is no
\* solid entry point, getTipInfo gives no 200 classification for the tip,
\* whichever parent is missing and whatever the other parent's OTRSI is.
C12_MissingParentNeverClassified ==
    (ReachesParentScan /\ MissingParents # {}) => resp.status # StatusOK

\* C15: the status and the flags of a getTipInfo reply are the same for every
\* order in which the parents may be examined.
C15_ReplyIndependentOfScanOrder ==
    resp.endpoint = "getTipInfo" =>
        \A order \in IterationOrders(req) :
            LET other == getTipInfo(req, order)
            IN  /\ other.status = resp.status
                /\ other.confirmed = resp.confirmed
                /\ other.conflicting = resp.conflicting
                /\ other.shouldPromote = resp.shouldPromote
                /\ other.shouldReattach = resp.shouldReattach

\* C13: on every exit path of getTipInfo every handle the handler acquired
\* on a metadata or a bundle has been released: per object, as many releases
\* as acquisitions (given that the index lookup releases the handle it is
\* passed).
C13_HandlesReleasedOnEveryPath ==
    resp.endpoint = "getTipInfo" =>
        \A object \in HandleObjects :
            resp.refs.released[object] = resp.refs.acquired[object]

\* C13 witness: a reply sent after the scan of two parents, with handles taken
\* on the tip's metadata, on its bundle and on both parents' metadata
C13_Witness ==
    /\ resp.endpoint = "getTipInfo"
    /\ resp.refs.acquired[<<"metadata", TipHash>>] = 2
    /\ resp.refs.acquired[<<"bundle", TipHash>>] = 1
    /\ \A p \in ApproveeHashes : resp.refs.acquired[<<"metadata", p>>] = 2

\* the direct parents of the queried tip that are solid entry points
EntryPointParents == ApproveeHashSet(bundles[QueriedHash]) \cap sep
\* LSMI - entry_point_index > MaxApproveeOTRSIDelta
EntryPointBreaches == lsmi - epi > MaxDeltaTxApproveesOldestRootSnapshotIndexToLSMI

\* C14: in the scan of the parents a solid entry point counts with the
\* snapshot's entry point index as its OTRSI and its metadata is not looked
\* up, so it never gives `approvee transaction not found`; a tip whose
\* parents are all solid entry points is told to promote exactly when
\* LSMI - entry_point_index > MaxApproveeOTRSIDelta, and a 200 reply to a tip
\* with such a parent over the threshold says promote.
C14_EntryPointParentUsesEntryPointIndex ==
    ReachesParentScan =>
        /\ \A p \in EntryPointParents :
              /\ <<"metadata", p>> \notin resp.log
              /\ <<"rootSnapshotIndexes", p>> \notin resp.log
              /\ resp.refs.acquired[<<"metadata", p>>] = 0
              /\ ~(resp.error = "approvee transaction not found" /\ resp.detail = p)
        /\ ApproveeHashSet(bundles[QueriedHash]) \subseteq sep =>
              /\ resp.status = StatusOK
              /\ resp.shouldPromote <=> EntryPointBreaches
              /\ ~resp.shouldReattach
        /\ (EntryPointParents # {} /\ EntryPointBreaches /\ resp.status = StatusOK) =>
              resp.shouldPromote

\* C14 witness: a tip whose two parents are solid entry points without
\* metadata was told to promote because of the entry point index
C14_Witness ==
    /\ ReachesParentScan
    /\ ApproveeHashSet(bundles[QueriedHash]) = ApproveeHashes
    /\ ApproveeHashes \subseteq sep
    /\ \A p \in ApproveeHashes : ~store[p].known
    /\ EntryPointBreaches
    /\ resp.status = StatusOK /\ resp.shouldPromote

\* how many of the four flags of the reply are true
FlagsSet ==
    Cardinality({f \in {"confirmed", "conflicting", "shouldPromote", "shouldReattach"} :
                    resp[f]})

\* C16: in every 200 reply of getTipInfo at most one of confirmed,
\* conflicting, shouldPromote and shouldReattach is true.
C16_AtMostOneFlag ==
    (resp.endpoint = "getTipInfo" /\ resp.status = StatusOK) => FlagsSet <= 1

\* C16 witness: a tail whose metadata says confirmed and conflicting was
\* answered with one flag
C16_Witness ==
    /\ KnownSolidTail
    /\ QueriedMeta.confirmed /\ QueriedMeta.conflicting
    /\ resp.status = StatusOK /\ FlagsSet = 1

\* a getTipInfo request on TipHash
TipQueried ==
    /\ resp.endpoint = "getTipInfo"
    /\ req.tailTransaction = HashTrytes(TipHash)

\* C17 as stated, its second half: once shouldReattach was reported on the
\* tip, every later call on it reports shouldReattach.
C17_ReattachReportedByEveryLaterCall ==
    (TipQueried /\ req.decodes /\ "reattach" \in reported) => resp.shouldReattach

\* C17 amended: for a solid tail that stays unconfirmed and non-conflicting
\* with fixed indexes at most LSMI, while LSMI only advances the verdicts of
\* getTipInfo never move backwards in the order all-false < shouldPromote <
\* shouldReattach: a verdict is never fresher than one given before, and once
\* shouldReattach was reported every later call made while the node is synced
\* reports it (a call made while it is not synced carries no verdict).
C17_VerdictNeverMovesBackwards ==
    TipQueried =>
        /\ Verdict(resp) # "none" =>
              \A earlier \in reported : VerdictRank(Verdict(resp)) >= VerdictRank(earlier)
        /\ ("reattach" \in reported /\ TailLookedUp) =>
              /\ resp.status = StatusOK
              /\ resp.shouldReattach

\* C17 witness: a tip reported non-lazy and then told to promote is told to
\* reattach after LSMI advanced further
C17_Witness ==
    /\ TipQueried
    /\ reported = {"nonLazy", "promote", "reattach"}
    /\ resp.shouldReattach

====
